---------------------------- MODULE Spec2Model ----------------------------
(***************************************************************************)
(* Model of the car / flight / robot transformer demo.                     *)
(*                                                                         *)
(*   App               mode / doorOpen state and the three toggle handlers *)
(*   VehicleController held keys, the locomotion integrator (useFrame) and *)
(*                     the camera follow                                   *)
(*   TransformerPart   the per-part transform animator (useFrame)          *)
(*                                                                         *)
(* Numbers.  The program computes in IEEE doubles.  The model computes in  *)
(* fixed point: lengths, speeds and angles are integers counting 1/10000   *)
(* of a world unit or of a radian (Scale), interpolation factors count     *)
(* 1/1000 (Mille), times count milliseconds.  A product is rounded toward  *)
(* zero (TruncDiv), which keeps the sign symmetry of the floating-point    *)
(* product.                                                                *)
(***************************************************************************)
EXTENDS Integers, FiniteSets, Sequences, TLC

VARIABLES
    mode,           \* App: useState 'car' | 'flight' | 'robot'
    doorOpen,       \* App: useState boolean
    keys,           \* VehicleController keys.current: the codes held
    velocity,       \* VehicleController velocity.current
    rotY,           \* VehicleController rotY.current (heading)
    height,         \* VehicleController height.current
    banking,        \* VehicleController banking.current
    wheelRot,       \* VehicleController wheelRot.current
    worldPos,       \* VehicleController worldPos.current, <<x, y, z>>
    group,          \* the assembly group: [position, rotation]
    target,         \* OrbitControls target (camera look-at point)
    wheelRotation,  \* prop wheelRotation as of the last render
    time,           \* prop time as of the last render, ms
    part,           \* the TransformerPart instance that is modelled
    partPos,        \* that part's group position, <<x, y, z>>
    partQuat,       \* that part's group quaternion (see Slerp)
    uniformTime,    \* that part's shader uniform `time`
    clock,          \* state.clock.elapsedTime, ms
    delta,          \* the frame time of the frame being rendered, ms
    pc,             \* position in the render loop
    stages,         \* per-frame work done so far in the frame being rendered
    frame,          \* frames rendered (bounds the model)
    events          \* input events delivered (bounds the model)

vars == <<mode, doorOpen, keys, velocity, rotY, height, banking, wheelRot,
          worldPos, group, target, wheelRotation, time, part, partPos,
          partQuat, uniformTime, clock, delta, pc, stages, frame,
          events>>

-----------------------------------------------------------------------------
(* Fixed point *)

\* 1.0 as a length, speed or angle
Scale == 10000

\* 1.0 as an interpolation factor
Mille == 1000

Abs(a) == IF a < 0 THEN -a ELSE a

Min(a, b) == IF a < b THEN a ELSE b

Max(a, b) == IF a > b THEN a ELSE b

\* a / b rounded toward zero, b > 0
TruncDiv(a, b) == IF a >= 0 THEN a \div b ELSE -((-a) \div b)

\* pi, pi/2, pi/4, 2 pi in 1/10000 rad
Pi == 31416

HalfPi == Pi \div 2

QuarterPi == Pi \div 4

TwoPi == 2 * Pi

\* Taylor polynomials, good to about 1/10000 for |x| <= pi/4
SinSmall(x) ==
    LET x2 == TruncDiv(x * x, Scale)
        x3 == TruncDiv(x * x2, Scale)
        x5 == TruncDiv(x3 * x2, Scale)
    IN  x - TruncDiv(x3, 6) + TruncDiv(x5, 120)

CosSmall(x) ==
    LET x2 == TruncDiv(x * x, Scale)
        x4 == TruncDiv(x2 * x2, Scale)
        x6 == TruncDiv(x4 * x2, Scale)
    IN  Scale - TruncDiv(x2, 2) + TruncDiv(x4, 24) - TruncDiv(x6, 720)

\* Math.sin for an angle in [0, 2 pi)
SinTurn(r) ==
    IF r <= QuarterPi THEN SinSmall(r)
    ELSE IF r <= HalfPi + QuarterPi THEN CosSmall(r - HalfPi)
    ELSE IF r <= Pi + QuarterPi THEN -SinSmall(r - Pi)
    ELSE IF r <= Pi + HalfPi + QuarterPi THEN -CosSmall(r - Pi - HalfPi)
    ELSE SinSmall(r - TwoPi)

\* Math.sin(a), a in 1/10000 rad, result in 1/10000; Sin(0) = 0 exactly
Sin(a) == SinTurn(a % TwoPi)

\* Math.cos(a); Cos(0) = 1 exactly
Cos(a) == SinTurn((a + HalfPi) % TwoPi)


-----------------------------------------------------------------------------
(* Program constants *)

\* CONTROLS_CONFIG.acceleration = 0.02
acceleration == 200

\* CONTROLS_CONFIG.deceleration = 0.95, in percent
deceleration == 95

\* CONTROLS_CONFIG.maxSpeed = 0.8
maxSpeed == 8000

\* CONTROLS_CONFIG.turnSpeed = 0.04
turnSpeed == 400

\* the steering dead band 0.01
SteerEpsilon == 100

\* the bank angle 0.4 of a turn in flight
BankAngle == 4000

\* the smoothing factors 0.1 (banking, camera) and 0.05 (height)
BankLerp == 100

HeightLerp == 50

CameraLerp == 100

\* cruise altitude 4.0 and the amplitude 0.3 of its oscillation, in tenths
FlightHeight == 40000

HeightSwing == 3

\* the camera looks 3.0 above the robot and 0.8 above the car
RobotLookAt == 30000

CarLookAt == 8000

\* wheelRot grows by velocity * 3
WheelFactor == 3

\* lerpSpeed = 4 * delta
LerpRate == 4

\* the flap amplitude 0.8, in tenths, and the open angle pi / 2.2
FlapSwing == 8

DoorOpenAngle == 14280

Modes == {"car", "flight", "robot"}

\* The key codes the frame callback reads; every other code is stored in
\* keys.current and never read.
ForwardCodes == {"ArrowUp", "KeyW"}

BackwardCodes == {"ArrowDown", "KeyS"}

LeftCodes == {"ArrowLeft", "KeyA"}

RightCodes == {"ArrowRight", "KeyD"}

KeyCodes == ForwardCodes \cup BackwardCodes \cup LeftCodes \cup RightCodes


-----------------------------------------------------------------------------
(* Vectors and interpolation *)

\* THREE.MathUtils.lerp(x, y, t) = (1 - t) * x + t * y
Lerp(x, y, t) == TruncDiv((Mille - t) * x + t * y, Mille)

\* Vector3.lerp(v, alpha): this.x += (v.x - this.x) * alpha, per component
LerpV(p, v, alpha) ==
    [i \in 1..3 |-> p[i] + TruncDiv((v[i] - p[i]) * alpha, Mille)]

\* new THREE.Quaternion(): the identity rotation.  A rotation set from
\* Euler angles is kept as those angles; `motion` names the statement of the
\* part animator that set it.
IdentityQ == [euler |-> <<0, 0, 0>>, motion |-> "none"]

FromEuler(x, y, z, m) == [euler |-> <<x, y, z>>, motion |-> m]

\* qBase.clone().multiply(dynamicQ), kept as the pair of its factors
Multiply(qBase, dynamicQ) == [base |-> qBase, dynamic |-> dynamicQ]

\* Quaternion.slerp(qb, t) moves the quaternion along the great arc to qb by
\* the fraction t of the arc (beyond qb when t > 1).  The model keeps the
\* quaternion as the last slerp applied to it: its end and its fraction.
Slerp(q, qb, t) == [to |-> qb, t |-> t]

-----------------------------------------------------------------------------
(* CarAssembly: the parts, their poses, and the props each is given *)

WheelParts == {"wheel0", "wheel1", "wheel2", "wheel3"}

DoorParts == {"door_left", "door_right"}

DriverParts == {"driver_head", "driver_body"}

BodyParts == {"torso", "head", "waist", "leg_l", "leg_r"}

Parts == DriverParts \cup BodyParts \cup DoorParts \cup WheelParts

\* the partType prop
PartType(p) == IF p \in WheelParts THEN "wheel" ELSE p

\* carPos, robotPos, flightPos, carRot, robotRot, flightRot of every part
Poses ==
    "driver_head" :>
        [carPos |-> <<0, 9500, -3000>>,      carRot |-> <<0, 0, 0>>,
         robotPos |-> <<0, 44000, 4000>>,    robotRot |-> <<0, 0, 0>>,
         flightPos |-> <<0, 9500, -3000>>,   flightRot |-> <<0, 0, 0>>] @@
    "driver_body" :>
        [carPos |-> <<0, 7000, -3000>>,      carRot |-> <<3000, 0, 0>>,
         robotPos |-> <<0, 41000, 4000>>,    robotRot |-> <<0, 0, 0>>,
         flightPos |-> <<0, 7000, -3000>>,   flightRot |-> <<3000, 0, 0>>] @@
    "torso" :>
        [carPos |-> <<0, 7000, 1000>>,       carRot |-> <<0, 0, 0>>,
         robotPos |-> <<0, 40000, 0>>,       robotRot |-> <<0, 0, 0>>,
         flightPos |-> <<0, 7000, 1000>>,    flightRot |-> <<0, 0, 0>>] @@
    "head" :>
        [carPos |-> <<0, 7000, 5000>>,       carRot |-> <<0, 0, 0>>,
         robotPos |-> <<0, 55000, 0>>,       robotRot |-> <<0, 0, 0>>,
         flightPos |-> <<0, 6000, 5000>>,    flightRot |-> <<0, 0, 0>>] @@
    "door_left" :>
        [carPos |-> <<12000, 9000, -6000>>,     carRot |-> <<0, 0, 0>>,
         robotPos |-> <<15000, 48000, -10000>>, robotRot |-> <<0, -4000, 14000>>,
         flightPos |-> <<12000, 10000, -6000>>, flightRot |-> <<0, 0, 3000>>] @@
    "door_right" :>
        [carPos |-> <<-12000, 9000, -6000>>,     carRot |-> <<0, 0, 0>>,
         robotPos |-> <<-15000, 48000, -10000>>, robotRot |-> <<0, 4000, -14000>>,
         flightPos |-> <<-12000, 10000, -6000>>, flightRot |-> <<0, 0, -3000>>] @@
    "wheel0" :>
        [carPos |-> <<13000, 4500, 18000>>,    carRot |-> <<0, 0, HalfPi>>,
         robotPos |-> <<25000, 48000, 0>>,     robotRot |-> <<0, 0, HalfPi>>,
         flightPos |-> <<11700, 6500, 18000>>, flightRot |-> <<HalfPi, 0, HalfPi>>] @@
    "wheel1" :>
        [carPos |-> <<-13000, 4500, 18000>>,    carRot |-> <<0, 0, HalfPi>>,
         robotPos |-> <<-25000, 48000, 0>>,     robotRot |-> <<0, 0, HalfPi>>,
         flightPos |-> <<-11700, 6500, 18000>>, flightRot |-> <<HalfPi, 0, HalfPi>>] @@
    "wheel2" :>
        [carPos |-> <<13000, 4500, -18000>>,    carRot |-> <<0, 0, HalfPi>>,
         robotPos |-> <<25000, 4000, 0>>,       robotRot |-> <<0, 0, HalfPi>>,
         flightPos |-> <<11700, 6500, -18000>>, flightRot |-> <<HalfPi, 0, HalfPi>>] @@
    "wheel3" :>
        [carPos |-> <<-13000, 4500, -18000>>,    carRot |-> <<0, 0, HalfPi>>,
         robotPos |-> <<-25000, 4000, 0>>,       robotRot |-> <<0, 0, HalfPi>>,
         flightPos |-> <<-11700, 6500, -18000>>, flightRot |-> <<HalfPi, 0, HalfPi>>] @@
    "waist" :>
        [carPos |-> <<0, 4000, -2000>>,      carRot |-> <<0, 0, 0>>,
         robotPos |-> <<0, 28000, 0>>,       robotRot |-> <<0, 0, 0>>,
         flightPos |-> <<0, 3500, -2000>>,   flightRot |-> <<0, 0, 0>>] @@
    "leg_l" :>
        [carPos |-> <<5000, 4000, -15000>>,    carRot |-> <<0, 0, 0>>,
         robotPos |-> <<7000, 12000, 0>>,      robotRot |-> <<0, 0, 0>>,
         flightPos |-> <<5000, 4000, -15000>>, flightRot |-> <<0, 0, 0>>] @@
    "leg_r" :>
        [carPos |-> <<-5000, 4000, -15000>>,    carRot |-> <<0, 0, 0>>,
         robotPos |-> <<-7000, 12000, 0>>,      robotRot |-> <<0, 0, 0>>,
         flightPos |-> <<-5000, 4000, -15000>>, flightRot |-> <<0, 0, 0>>]

\* The props a part is rendered with.  The driver's parts are given
\* doorOpen={false}; only the doors are given time and only the wheels
\* wheelRotation, the others take the defaults 0.
PropDoorOpen(p) == IF p \in DriverParts THEN FALSE ELSE doorOpen

PropTime(p) == IF p \in DoorParts THEN time ELSE 0

PropWheelRotation(p) == IF p \in WheelParts THEN wheelRotation ELSE 0


-----------------------------------------------------------------------------
(* App: the mode / door state machine *)

\* A state change renders VehicleController and CarAssembly again, which
\* reads wheelRot.current and Date.now() into the props of the parts.  Wall
\* time is counted from the start of the render clock, and a render falls
\* right after the last frame: Date.now() reads clock.elapsedTime.
Render ==
    /\ wheelRotation' = wheelRot
    /\ time' = clock

\* Handlers run to completion between frames.
Idle == pc = "idle"

bodyVars == <<velocity, rotY, height, banking, wheelRot, worldPos, group,
              target>>

partVars == <<part, partPos, partQuat, uniformTime>>

loopVars == <<clock, delta, pc, stages, frame>>

\* toggleTransform without its setDoorOpen(false)
ToggleTransformKeepsDoor ==
    /\ Idle
    /\ mode' = IF mode = "robot" THEN "car" ELSE "robot"
    /\ Render
    /\ events' = events + 1
    /\ UNCHANGED <<doorOpen, keys, bodyVars, partVars, loopVars>>

\* toggleTransform: setMode(prev => prev === 'robot' ? 'car' : 'robot');
\* setDoorOpen(false)
ToggleTransform ==
    /\ Idle
    /\ mode' = IF mode = "robot" THEN "car" ELSE "robot"
    /\ doorOpen' = FALSE
    /\ Render
    /\ events' = events + 1
    /\ UNCHANGED <<keys, bodyVars, partVars, loopVars>>

\* toggleFlight that leaves robot mode for car mode
ToggleFlightFromRobotToCar ==
    /\ Idle
    /\ mode' = IF mode = "car" THEN "flight" ELSE "car"
    /\ doorOpen' = FALSE
    /\ Render
    /\ events' = events + 1
    /\ UNCHANGED <<keys, bodyVars, partVars, loopVars>>

\* toggleFlight without its setDoorOpen(false)
ToggleFlightKeepsDoor ==
    /\ Idle
    /\ mode' = IF mode = "flight" THEN "car" ELSE "flight"
    /\ Render
    /\ events' = events + 1
    /\ UNCHANGED <<doorOpen, keys, bodyVars, partVars, loopVars>>

\* toggleFlight: setMode(prev => prev === 'flight' ? 'car' : 'flight');
\* setDoorOpen(false)
ToggleFlight ==
    /\ Idle
    /\ mode' = IF mode = "flight" THEN "car" ELSE "flight"
    /\ doorOpen' = FALSE
    /\ Render
    /\ events' = events + 1
    /\ UNCHANGED <<keys, bodyVars, partVars, loopVars>>

\* toggleDoor without its test of the mode
ToggleDoorInAnyMode ==
    /\ Idle
    /\ doorOpen' = ~doorOpen
    /\ Render
    /\ events' = events + 1
    /\ UNCHANGED <<mode, keys, bodyVars, partVars, loopVars>>

\* toggleDoor: if (mode === 'car') setDoorOpen(prev => !prev)
ToggleDoor ==
    /\ Idle
    /\ IF mode = "car"
       THEN /\ doorOpen' = ~doorOpen
            /\ Render
       ELSE UNCHANGED <<doorOpen, wheelRotation, time>>
    /\ events' = events + 1
    /\ UNCHANGED <<mode, keys, bodyVars, partVars, loopVars>>

-----------------------------------------------------------------------------
(* VehicleController: held keys *)

\* handleDown: keys.current[e.code] = true
KeyDown(code) ==
    /\ Idle
    /\ keys' = keys \cup {code}
    /\ events' = events + 1
    /\ UNCHANGED <<mode, doorOpen, wheelRotation, time, bodyVars, partVars,
                   loopVars>>

\* handleUp: keys.current[e.code] = false
KeyUp(code) ==
    /\ Idle
    /\ keys' = keys \ {code}
    /\ events' = events + 1
    /\ UNCHANGED <<mode, doorOpen, wheelRotation, time, bodyVars, partVars,
                   loopVars>>

isMovingForward == keys \cap ForwardCodes # {}

isMovingBackward == keys \cap BackwardCodes # {}

isTurningLeft == keys \cap LeftCodes # {}

isTurningRight == keys \cap RightCodes # {}

-----------------------------------------------------------------------------
(* VehicleController: the locomotion integrator *)

\* currentAccel
CurrentAccel(m) ==
    IF m = "robot" THEN TruncDiv(acceleration * 5, 10) ELSE acceleration

\* currentMaxSpeed
CurrentMaxSpeed(m) ==
    IF m = "flight" THEN TruncDiv(maxSpeed * 15, 10)
    ELSE IF m = "robot" THEN TruncDiv(maxSpeed * 4, 10)
    ELSE maxSpeed

\* the acceleration step dividing by the deceleration factor
NextVelocityDividing(v, m, fwd, back) ==
    IF fwd THEN Min(v + CurrentAccel(m), CurrentMaxSpeed(m))
    ELSE IF back
    THEN Max(v - CurrentAccel(m), TruncDiv(-CurrentMaxSpeed(m) * 5, 10))
    ELSE TruncDiv(v * 100, deceleration)

\* the acceleration step without the clamp to currentMaxSpeed
NextVelocityUnclamped(v, m, fwd, back) ==
    IF fwd THEN v + CurrentAccel(m)
    ELSE IF back
    THEN Max(v - CurrentAccel(m), TruncDiv(-CurrentMaxSpeed(m) * 5, 10))
    ELSE TruncDiv(v * deceleration, 100)

\* 1. Acceleration: the new velocity
NextVelocity(v, m, fwd, back) ==
    IF fwd THEN Min(v + CurrentAccel(m), CurrentMaxSpeed(m))
    ELSE IF back
    THEN Max(v - CurrentAccel(m), TruncDiv(-CurrentMaxSpeed(m) * 5, 10))
    ELSE TruncDiv(v * deceleration, 100)

\* steerEffect without the dead band
SteerEffectAlways(v, m) == IF v >= 0 THEN 1 ELSE -1

\* steerEffect, from the new velocity
SteerEffect(v, m) ==
    IF m = "flight" \/ m = "robot" \/ Abs(v) > SteerEpsilon
    THEN (IF v >= 0 THEN 1 ELSE -1)
    ELSE 0

\* currentTurnSpeed
CurrentTurnSpeed(m) ==
    IF m = "flight" THEN TruncDiv(turnSpeed * 12, 10)
    ELSE IF m = "robot" THEN TruncDiv(turnSpeed * 8, 10)
    ELSE turnSpeed

\* 2. Steering: the new heading
NextRotY(r, v, m, left, right) ==
    LET afterLeft == IF left THEN r + CurrentTurnSpeed(m) * SteerEffect(v, m)
                     ELSE r
    IN  IF right THEN afterLeft - CurrentTurnSpeed(m) * SteerEffect(v, m)
        ELSE afterLeft

\* targetBanking
TargetBanking(m, left, right) ==
    IF m = "flight"
    THEN (IF left THEN BankAngle ELSE IF right THEN -BankAngle ELSE 0)
    ELSE 0

\* targetHeight: 4.0 + Math.sin(state.clock.elapsedTime * 2) * 0.3 in flight
TargetHeight(m, elapsed) ==
    IF m = "flight"
    THEN FlightHeight + TruncDiv(Sin(elapsed * 20) * HeightSwing, 10)
    ELSE 0

\* The useFrame callback of VehicleController.  groupRef and controlsRef
\* are set when the component is mounted, before the first frame.
ControllerFrame ==
    /\ pc = "controller"
    /\ LET v == NextVelocity(velocity, mode, isMovingForward, isMovingBackward)
           r == NextRotY(rotY, v, mode, isTurningLeft, isTurningRight)
           b == Lerp(banking, TargetBanking(mode, isTurningLeft, isTurningRight),
                     BankLerp)
           h == Lerp(height, TargetHeight(mode, clock), HeightLerp)
           moveX == TruncDiv(Sin(r) * v, Scale)
           moveZ == TruncDiv(Cos(r) * v, Scale)
           pos == <<worldPos[1] + moveX, h, worldPos[3] + moveZ>>
           targetPoint ==
               <<pos[1],
                 pos[2] + (IF mode = "robot" THEN RobotLookAt ELSE CarLookAt),
                 pos[3]>>
       IN  /\ velocity' = v
           /\ rotY' = r
           /\ banking' = b
           /\ height' = h
           /\ worldPos' = pos
           /\ group' = [position |-> pos, rotation |-> <<b, r, 0>>]
           /\ wheelRot' = wheelRot + v * WheelFactor
           /\ target' = LerpV(target, targetPoint, CameraLerp)
    /\ pc' = "idle"
    /\ stages' = stages \o <<"locomotion", "camera">>
    /\ frame' = frame + 1
    /\ UNCHANGED <<mode, doorOpen, keys, wheelRotation, time, partVars, clock,
                   delta, events>>

-----------------------------------------------------------------------------
(* TransformerPart: the part animator *)

\* lerpSpeed = 4 * delta
LerpSpeed(d) == LerpRate * d

\* targetP
TargetP(p, isRobot, isFlight) ==
    IF isRobot THEN Poses[p].robotPos
    ELSE IF isFlight THEN Poses[p].flightPos
    ELSE Poses[p].carPos

\* qBase
QBase(p, isRobot, isFlight) ==
    LET e == IF isRobot THEN Poses[p].robotRot
             ELSE IF isFlight THEN Poses[p].flightRot
             ELSE Poses[p].carRot
    IN  FromEuler(e[1], e[2], e[3], "none")

\* dynamicQ: scissor doors / flight wings, then wheel rotation
DynamicQ(partType, isRobot, isFlight, open, wheelRotationProp, timeProp) ==
    LET flap == TruncDiv(Sin(timeProp * 100) * FlapSwing, 10)
        door ==
            IF partType \in DoorParts
            THEN IF isFlight
                 THEN IF partType = "door_left"
                      THEN FromEuler(0, 0, QuarterPi + flap, "flap")
                      ELSE FromEuler(0, 0, -QuarterPi - flap, "flap")
                 ELSE IF open
                 THEN IF partType = "door_left"
                      THEN FromEuler(0, 0, DoorOpenAngle, "open")
                      ELSE FromEuler(0, 0, -DoorOpenAngle, "open")
                 ELSE IdentityQ
            ELSE IdentityQ
    IN  IF partType = "wheel" /\ ~isRobot
        THEN FromEuler(wheelRotationProp, 0, 0, "spin")
        ELSE door

\* The useFrame callback of TransformerPart, for the part modelled.
PartFrame ==
    /\ pc = "parts"
    /\ LET isRobot == mode = "robot"
           isFlight == mode = "flight"
           targetQ ==
               Multiply(QBase(part, isRobot, isFlight),
                        DynamicQ(PartType(part), isRobot, isFlight,
                                 PropDoorOpen(part), PropWheelRotation(part),
                                 PropTime(part)))
       IN  /\ partPos' = LerpV(partPos, TargetP(part, isRobot, isFlight),
                               LerpSpeed(delta))
           /\ partQuat' = Slerp(partQuat, targetQ, LerpSpeed(delta))
    /\ uniformTime' = clock
    /\ pc' = "controller"
    /\ stages' = Append(stages, "part")
    /\ UNCHANGED <<mode, doorOpen, keys, wheelRotation, time, bodyVars, part,
                   clock, delta, frame, events>>

-----------------------------------------------------------------------------
(* The render loop *)

\* One rendered frame: the clock advances by the frame time d, then the
\* useFrame callbacks run in the order they subscribed.  A component
\* subscribes in a layout effect, and those run children first: the parts
\* of CarAssembly, then VehicleController, which renders CarAssembly.
BeginFrame(d) ==
    /\ Idle
    /\ delta' = d
    /\ clock' = clock + d
    /\ pc' = "parts"
    /\ stages' = <<>>
    /\ UNCHANGED <<mode, doorOpen, keys, wheelRotation, time, bodyVars,
                   partVars, frame, events>>

\* The state after the first render, for part p.
Mounted(p) ==
    /\ mode = "car"
    /\ doorOpen = FALSE
    /\ keys = {}
    /\ velocity = 0
    /\ rotY = 0
    /\ height = 0
    /\ banking = 0
    /\ wheelRot = 0
    /\ worldPos = <<0, 0, 0>>
    /\ group = [position |-> <<0, 0, 0>>, rotation |-> <<0, 0, 0>>]
    /\ target = <<0, 0, 0>>
    /\ wheelRotation = 0
    /\ time = 0
    /\ part = p
    /\ partPos = <<0, 0, 0>>
    /\ partQuat = Slerp(IdentityQ, Multiply(IdentityQ, IdentityQ), Mille)
    /\ uniformTime = 0
    /\ clock = 0
    /\ delta = 0
    /\ pc = "idle"
    /\ stages = <<>>
    /\ frame = 0
    /\ events = 0


-----------------------------------------------------------------------------
(* Specifications *)

\* frame times, ms: 60 frames a second, a slow frame, a frame after a stall
Deltas == {16, 250, 600}

\* the frame time of a steady 60 frames a second
SteadyDeltas == {16}

MaxFrames == 1

MaxEvents == 2

\* A session: any part, any input, any frame time, a few frames.
Init == \E p \in Parts : Mounted(p)

Next ==
    \/ \E c \in KeyCodes : events < MaxEvents /\ KeyDown(c)
    \/ \E c \in KeyCodes : events < MaxEvents /\ KeyUp(c)
    \/ events < MaxEvents /\ ToggleTransform
    \/ events < MaxEvents /\ ToggleFlight
    \/ events < MaxEvents /\ ToggleDoor
    \/ \E d \in Deltas : frame < MaxFrames /\ BeginFrame(d)
    \/ PartFrame
    \/ ControllerFrame

Spec == Init /\ [][Next]_vars

MaxSteerFrames == 1

MaxSteerEvents == 3

\* Steering: every key, both mode toggles, steady frames, a front wheel.
InitSteer == Mounted("wheel0")

NextSteer ==
    \/ \E c \in KeyCodes : events < MaxSteerEvents /\ KeyDown(c)
    \/ \E c \in KeyCodes : events < MaxSteerEvents /\ KeyUp(c)
    \/ events < MaxSteerEvents /\ ToggleTransform
    \/ events < MaxSteerEvents /\ ToggleFlight
    \/ \E d \in SteadyDeltas : frame < MaxSteerFrames /\ BeginFrame(d)
    \/ PartFrame
    \/ ControllerFrame

SpecSteer == InitSteer /\ [][NextSteer]_vars

MaxDriveFrames == 10

MaxDriveEvents == 3

\* Driving: the arrow keys for forward and backward, both mode toggles,
\* steady frames, a front wheel.
DriveCodes == {"ArrowUp", "ArrowDown"}

InitDrive == Mounted("wheel0")

NextDrive ==
    \/ \E c \in DriveCodes : events < MaxDriveEvents /\ KeyDown(c)
    \/ \E c \in DriveCodes : events < MaxDriveEvents /\ KeyUp(c)
    \/ events < MaxDriveEvents /\ ToggleTransform
    \/ events < MaxDriveEvents /\ ToggleFlight
    \/ \E d \in SteadyDeltas : frame < MaxDriveFrames /\ BeginFrame(d)
    \/ PartFrame
    \/ ControllerFrame

SpecDrive == InitDrive /\ [][NextDrive]_vars

MaxStraightFrames == 45

MaxStraightEvents == 2

\* The straight run: from rest in car mode, Forward is pressed and held.
InitStraight == Mounted("wheel0")

NextStraight ==
    \/ \E c \in ForwardCodes : events < MaxStraightEvents /\ KeyDown(c)
    \/ \E d \in SteadyDeltas : frame < MaxStraightFrames /\ BeginFrame(d)
    \/ PartFrame
    \/ ControllerFrame

SpecStraight == InitStraight /\ [][NextStraight]_vars

-----------------------------------------------------------------------------
(* Claims *)

\* C1: after every step of the locomotion integrator the velocity lies in
\* [-0.5 * maxSpeed(m), maxSpeed(m)], m the mode of that step.
C1_VelocityWithinModeLimits ==
    [][ControllerFrame =>
          /\ velocity' <= CurrentMaxSpeed(mode)
          /\ velocity' >= -(CurrentMaxSpeed(mode) \div 2)]_vars

\* C2: the doors are open only in car mode: whatever their state before,
\* they are closed once the mode has left car.
C2_DoorOpenOnlyInCar == doorOpen => mode = "car"

C2_LeftCarWithDoorsClosed ==
    /\ mode = "robot"
    /\ ~doorOpen
    /\ events = 2
    /\ keys = {}

\* C3: ToggleDoor flips doorOpen in car mode, leaves it alone in flight and
\* robot mode, and never changes the mode.
C3_ToggleDoorOnlyInCar ==
    [][ToggleDoor =>
          /\ mode' = mode
          /\ doorOpen' = (IF mode = "car" THEN ~doorOpen ELSE doorOpen)]_vars

C3_DoorToggledOpen == mode = "car" /\ doorOpen /\ events = 1

\* C4: ToggleRobot sends car and flight to robot and robot to car,
\* ToggleFlight sends car and robot to flight and flight to car; the mode is
\* always one of the three, and no key event, frame or ToggleDoor changes it.
C4_ModeTransitions ==
    [][/\ mode' \in Modes
       /\ ToggleTransform =>
              mode' = (IF mode \in {"car", "flight"} THEN "robot" ELSE "car")
       /\ ToggleFlight =>
              mode' = (IF mode \in {"car", "robot"} THEN "flight" ELSE "car")
       /\ (\/ \E c \in KeyCodes : KeyDown(c) \/ KeyUp(c)
           \/ \E d \in Deltas : BeginFrame(d)
           \/ PartFrame
           \/ ControllerFrame
           \/ ToggleDoor) => mode' = mode]_vars

C4_FlightAfterTogglesAndFrame ==
    /\ mode = "flight"
    /\ events = 2
    /\ keys = {}
    /\ wheelRotation = 0
    /\ time > 0
    /\ frame = 1
    /\ pc = "idle"

\* C5: the target bank angle of a frame is +0.4 in flight with only TurnLeft
\* held, -0.4 in flight with only TurnRight held, and 0 otherwise.
C5_TargetBankAngle ==
    [][ControllerFrame =>
          LET onlyLeft == isTurningLeft /\ ~isTurningRight
              onlyRight == isTurningRight /\ ~isTurningLeft
              claimed == IF mode = "flight" /\ onlyLeft THEN BankAngle
                         ELSE IF mode = "flight" /\ onlyRight THEN -BankAngle
                         ELSE 0
          IN  banking' = Lerp(banking, claimed, BankLerp)]_vars

\* C6: at rest with neither Forward nor Backward held, one turn key leaves
\* the heading alone in car mode and turns it by turnRate(mode) in flight
\* and robot mode.
C6_SteeringAtRest ==
    [][(/\ ControllerFrame
        /\ velocity = 0
        /\ ~isMovingForward
        /\ ~isMovingBackward
        /\ isTurningLeft # isTurningRight) =>
          /\ mode = "car" => rotY' = rotY
          /\ mode = "flight" => Abs(rotY' - rotY) = TruncDiv(turnSpeed * 12, 10)
          /\ mode = "robot" => Abs(rotY' - rotY) = TruncDiv(turnSpeed * 8, 10)]_vars

C6_TurnedAtRestInFlight ==
    /\ mode = "flight"
    /\ velocity = 0
    /\ worldPos[3] = 0
    /\ ~isMovingForward
    /\ ~isMovingBackward
    /\ isTurningLeft # isTurningRight
    /\ frame = 1
    /\ pc = "idle"
    /\ rotY # 0

\* C7: the smoothing factor of a part's frame is min(1, 4 * dt): the part's
\* new position lies between its old position and the target, so it neither
\* overshoots nor moves away, and its orientation moves by the same factor.
C7_SmoothingNeverOvershoots ==
    [][PartFrame =>
          LET goal == TargetP(part, mode = "robot", mode = "flight")
              factor == Min(Mille, LerpRate * delta)
          IN  /\ \A i \in 1..3 :
                    /\ Min(partPos[i], goal[i]) <= partPos'[i]
                    /\ partPos'[i] <= Max(partPos[i], goal[i])
                    /\ Abs(goal[i] - partPos'[i]) <= Abs(goal[i] - partPos[i])
              /\ partPos' = LerpV(partPos, goal, factor)
              /\ partQuat'.t = factor]_vars

\* C8: the secondary rotation of a part's frame is the spin exactly when the
\* part is a wheel and the mode is not robot, the flap exactly when the part
\* is a door and the mode is flight, the open angle exactly when the part is
\* a door, the mode is car and the doors are open, and else the identity.
C8_SecondaryRotation ==
    [][PartFrame =>
          LET q == partQuat'.to.dynamic
          IN  /\ q.motion = "spin" <=> (part \in WheelParts /\ mode # "robot")
              /\ q.motion = "flap" <=> (part \in DoorParts /\ mode = "flight")
              /\ q.motion = "open" <=>
                     (part \in DoorParts /\ mode = "car" /\ doorOpen)
              /\ q.motion = "open" => Abs(q.euler[3]) = DoorOpenAngle
              /\ q.motion \notin {"spin", "flap", "open"} => q = IdentityQ]_vars

C8_DoorSwungOpenInCar ==
    /\ pc = "controller"
    /\ part = "door_left"
    /\ mode = "car"
    /\ doorOpen
    /\ partQuat.to.dynamic = FromEuler(0, 0, DoorOpenAngle, "open")

\* C9: on a frame with neither Forward nor Backward held the velocity keeps
\* its sign and its magnitude shrinks by the deceleration factor, in every
\* mode and from every velocity: a geometric decay to 0.
C9_CoastingDecays ==
    [][(ControllerFrame /\ ~isMovingForward /\ ~isMovingBackward) =>
          /\ Abs(velocity') <= Abs(velocity)
          /\ velocity > 0 => velocity' >= 0
          /\ velocity < 0 => velocity' <= 0
          /\ velocity = 0 => velocity' = 0
          /\ 100 * Abs(velocity') <= deceleration * Abs(velocity)]_vars

C9_CoastedInRobot ==
    /\ mode = "robot"
    /\ keys = {}
    /\ velocity < 0
    /\ velocity % 100 # 0
    /\ pc = "idle"

\* C10: from rest in car mode with heading 0 and only Forward held, the
\* velocity never decreases, rises by the acceleration every frame until it
\* is maxSpeed(Car) = 0.8 and never exceeds it; x stays constant and z never
\* decreases.
C10_StraightRun ==
    [][ControllerFrame =>
          /\ velocity' >= velocity
          /\ velocity' <= maxSpeed
          /\ isMovingForward => velocity' = Min(velocity + acceleration, maxSpeed)
          /\ rotY' = 0
          /\ worldPos'[1] = worldPos[1]
          /\ worldPos'[3] >= worldPos[3]]_vars

C10_ReachedTopSpeed ==
    /\ mode = "car"
    /\ isMovingForward
    /\ velocity = maxSpeed
    /\ worldPos[1] = 0
    /\ worldPos[3] > 0
    /\ pc = "idle"

\* C11: on every frame outside robot mode the spin angle the wheel animator
\* applies equals the integrator's current wheelRot accumulator, and the
\* accumulator grows by 3 * velocity on every frame.
C11_WheelSpinIsCurrent ==
    [][/\ (PartFrame /\ part \in WheelParts /\ mode # "robot") =>
              partQuat'.to.dynamic = FromEuler(wheelRot, 0, 0, "spin")
       /\ ControllerFrame => wheelRot' = wheelRot + velocity' * WheelFactor]_vars

\* C12: within every rendered frame the work runs in the order locomotion
\* update, every part's transform animation, camera follow: no part animator
\* runs before that frame's locomotion step, and once the frame is done the
\* camera smoothing has run after every part animator.
C12_LocomotionThenPartsThenCamera ==
    \A i \in DOMAIN stages :
        stages[i] = "part" =>
            /\ \E j \in 1..(i - 1) : stages[j] = "locomotion"
            /\ Idle => \E k \in (i + 1)..Len(stages) : stages[k] = "camera"

=============================================================================
